---- MODULE Spec2Model ----
(***************************************************************************)
(* Interaction-dispatch protocol of GameServerEC2Discord.                  *)
(*                                                                         *)
(*   handle-interaction/handler.py  the intake handler: verifies the       *)
(*       signature, parses the interaction, publishes one message to the   *)
(*       SNS topic and answers with the deferred acknowledgment;           *)
(*   manage-instance/handler.py     the executor: consumes one message,    *)
(*       looks the instance up, issues the control action and edits the    *)
(*       original interaction message with the outcome.                    *)
(*                                                                         *)
(* Python values are tagged records.  A Python string is the sequence of   *)
(* its pieces: a "server" option value is held character by character, so  *)
(* that truthiness, `in` and split are computed; the other strings are     *)
(* held in one piece, and the empty string is always << >>.                *)
(* A Python call either returns or raises: Ret(v) / Raise(exc).            *)
(***************************************************************************)
EXTENDS Naturals, Sequences, FiniteSets

VARIABLES
    requests,   \* the intake handler's invocations, in order of arrival
    channel,    \* the messages the SNS topic has accepted
    acts,       \* the executor's activations, in order of delivery
    instances,  \* the lifecycle state of each instance, as EC2 holds it
    patches     \* the edit-original-message calls made, in order

vars == <<requests, channel, acts, instances, patches>>

(***************************************************************************)
(* Bounds                                                                  *)
(***************************************************************************)
\* longest "server" option value enumerated
MaxLen == 3
\* intake invocations in one behaviour of the whole flow
MaxRequests == 2
\* executor activations in one behaviour of the whole flow
MaxActivations == 2

(***************************************************************************)
(* Python values                                                           *)
(***************************************************************************)
\* a key that is not in a dict (dict.get then yields None, or its default)
Missing == [t |-> "missing"]
None == [t |-> "none"]
Num(n) == [t |-> "num", n |-> n]
Str(s) == [t |-> "str", s |-> s]
List(l) == [t |-> "list", l |-> l]
Obj(f) == [t |-> "obj", f |-> f]

Ret(v) == [k |-> "ret", v |-> v]
Raise(e) == [k |-> "raise", exc |-> e]

\* bool(v): None, "", 0, [] and {} are falsy
Truthy(v) ==
    CASE v.t = "missing" -> FALSE
      [] v.t = "none" -> FALSE
      [] v.t = "num" -> v.n # 0
      [] v.t = "str" -> v.s # << >>
      [] v.t = "list" -> v.l # << >>
      [] v.t = "obj" -> \E key \in DOMAIN v.f : v.f[key] # Missing

\* dict.get(key): None when the key is missing
Get(obj, key) == IF obj.f[key] = Missing THEN None ELSE obj.f[key]

\* dict.get(key, {}): the default only when the key is missing
GetOrEmptyDict(obj, key) ==
    IF obj.f[key] = Missing THEN Obj([name |-> Missing, options |-> Missing])
    ELSE obj.f[key]

Sep == "|"
Alphabet == {"a", Sep}
Strings == UNION {[1..n -> Alphabet] : n \in 0..MaxLen}

SepCount(s) == Cardinality({i \in 1..Len(s) : s[i] = Sep})

\* a plausible slip: only the emptiness of the value is tested
HasSep_NonEmpty(s) == s # << >>

\* "|" in s
HasSep(s) == \E i \in 1..Len(s) : s[i] = Sep

FirstSep(s) == CHOOSE i \in 1..Len(s) : s[i] = Sep /\ \A j \in 1..(i-1) : s[j] # Sep

\* s.split("|", 1): the parts before and after the first separator, or the
\* string alone when it holds none
Split1(s) ==
    IF SepCount(s) > 0
    THEN <<SubSeq(s, 1, FirstSep(s) - 1), SubSeq(s, FirstSep(s) + 1, Len(s))>>
    ELSE <<s>>

(***************************************************************************)
(* Inbound requests (API Gateway / function URL events)                    *)
(***************************************************************************)
\* what the body's bytes are: bytes that are not UTF-8, text that is not
\* JSON, or the JSON text of a value
BadUtf8 == [t |-> "bytes", utf8 |-> FALSE]
Text == [t |-> "bytes", utf8 |-> TRUE, json |-> FALSE]
Json(v) == [t |-> "bytes", utf8 |-> TRUE, json |-> TRUE, v |-> v]
EmptyBytes == [t |-> "bytes", utf8 |-> TRUE, json |-> FALSE, empty |-> TRUE]

\* event["body"] as it is on the wire
NoBody == [w |-> "none"]
Raw(c) == [w |-> "raw", c |-> c]
B64(c) == [w |-> "b64", c |-> c]
BadB64 == [w |-> "badb64"]

\* the X-Signature-Ed25519 header: a string that may or may not be hex, may
\* or may not be 64 bytes long, and, when it is a signature, the message
\* (timestamp + body bytes) the platform's key signed
SigEmpty == [t |-> "sig", form |-> "empty"]
SigNotHex == [t |-> "sig", form |-> "nothex"]
SigShort == [t |-> "sig", form |-> "short"]
Signature(ts, bytes) == [t |-> "sig", form |-> "hex64", over |-> <<ts, bytes>>]

Timestamp == Str(<<"1700000001">>)
StaleTimestamp == Str(<<"1700000000">>)

Event(sig, ts, body, lib) ==
    [headers |-> [sig |-> sig, ts |-> ts],
     isBase64Encoded |-> body.w \in {"b64", "badb64"},
     body |-> body,
     lib |-> lib]

(***************************************************************************)
(* handle-interaction/handler.py                                           *)
(***************************************************************************)
PING_INTERACTION == 1
APPLICATION_COMMAND_INTERACTION == 2
DEFERRED_CHANNEL_MESSAGE_WITH_SOURCE == 5

_json_response(status_code, body) == [statusCode |-> status_code, body |-> body]

\* _get_header(headers, name): None for a header that is not there
_get_header(headers, name) ==
    IF headers[name] = Missing THEN None ELSE headers[name]

\* a header value is falsy when it is None or the empty string
HeaderFalsy(h) ==
    \/ h = None
    \/ h.t = "sig" /\ h.form = "empty"
    \/ h.t = "str" /\ h.s = << >>

\* event.get("body") or "", base64-decoded when the event says so
_get_body_bytes(event) ==
    CASE event.body.w = "none" -> Ret(EmptyBytes)
      [] event.body.w = "badb64" -> Raise("binascii.Error")
      [] event.body.w = "b64" -> Ret(event.body.c)
      [] event.body.w = "raw" -> Ret(event.body.c)

\* bytes.fromhex(signature): ValueError on a string that is not hex
FromHex(signature) ==
    IF signature.form = "nothex" THEN Raise("ValueError") ELSE Ret(signature)

\* VerifyKey.verify(message, signature): BadSignatureError unless the
\* signature is the key's over exactly this message.  A signature of the
\* wrong length is a ValueError in PyNaCl releases that check the length
\* first and a BadSignatureError in those that do not.
Verify(message, signature, lib) ==
    CASE signature.form = "short" ->
            IF lib = "strict" THEN Raise("ValueError")
            ELSE Raise("BadSignatureError")
      [] signature.form = "hex64" ->
            IF signature.over = message THEN Ret(TRUE)
            ELSE Raise("BadSignatureError")

_verify_request(event, body_bytes) ==
    LET signature == _get_header(event.headers, "sig")
        timestamp == _get_header(event.headers, "ts")
    IN  IF HeaderFalsy(signature) \/ HeaderFalsy(timestamp) THEN Ret(FALSE)
        ELSE LET sigBytes == FromHex(signature)
             IN  IF sigBytes.k = "raise" THEN sigBytes
                 ELSE LET verified == Verify(<<timestamp, body_bytes>>,
                                             sigBytes.v, event.lib)
                      IN  IF verified.k = "ret" THEN Ret(TRUE)
                          ELSE IF verified.exc = "BadSignatureError"
                               THEN Ret(FALSE)
                               ELSE verified

\* json.loads(body_bytes.decode("utf-8"))
JsonLoads(body_bytes) ==
    IF ~body_bytes.utf8 THEN Raise("UnicodeDecodeError")
    ELSE IF ~body_bytes.json THEN Raise("JSONDecodeError")
    ELSE Ret(body_bytes.v)

ServerOptionName == <<"server">>

\* the first option named "server" decides, whatever its value
RECURSIVE FirstServerOption(_)
FirstServerOption(options) ==
    IF options = << >> THEN Ret(None)
    ELSE LET option == Head(options)
         IN  IF option.t # "obj" THEN Raise("AttributeError")
             ELSE IF Get(option, "name") = Str(ServerOptionName)
                  THEN Ret(Get(option, "value"))
                  ELSE FirstServerOption(Tail(options))

_find_server_option_value(interaction) ==
    LET data == GetOrEmptyDict(interaction, "data")
    IN  IF data.t # "obj" THEN Raise("AttributeError")
        ELSE LET options == Get(data, "options")
             IN  IF ~Truthy(options) THEN Ret(None)
                 ELSE IF options.t # "list" THEN Raise("TypeError")
                 ELSE FirstServerOption(options.l)

\* "|" in server_value
ContainsSep(server_value) ==
    CASE server_value.t = "str" -> Ret(HasSep(server_value.s))
      [] server_value.t = "list" ->
            Ret(\E i \in 1..Len(server_value.l) : server_value.l[i] = Str(<<Sep>>))
      [] OTHER -> Raise("TypeError")

\* a publisher that files the server id as the instance's region
_publish_sns_message_RegionAsServer(command, interaction_id, interaction_token, region, server_id) ==
    [interactionId |-> interaction_id,
     interactionToken |-> interaction_token,
     command |-> command,
     serverId |-> server_id,
     region |-> region,
     instanceRegion |-> server_id]


\* the message _publish_sns_message hands to the topic
_publish_sns_message(command, interaction_id, interaction_token, region, server_id) ==
    [interactionId |-> interaction_id,
     interactionToken |-> interaction_token,
     command |-> command,
     serverId |-> server_id,
     region |-> region,
     instanceRegion |-> region]

NoMsg == [none |-> TRUE]

\* how far one invocation gets on its own: it ends with a response or an
\* unhandled exception, or it reaches the publish call with a message
Ended(result, parsed) ==
    [pc |-> "done", result |-> result, parsed |-> parsed, msg |-> NoMsg]
Publishing(msg) ==
    [pc |-> "publishing", result |-> Ret(None), parsed |-> TRUE, msg |-> msg]

\* lines 138-158: from the "server" option to the publish call
Dispatch(interaction) ==
    LET found == _find_server_option_value(interaction)
    IN  IF found.k = "raise" THEN Ended(found, TRUE)
        ELSE LET server_value == found.v
                 sep == IF Truthy(server_value) THEN ContainsSep(server_value)
                        ELSE Ret(FALSE)
             IN  IF sep.k = "raise" THEN Ended(sep, TRUE)
                 ELSE IF ~sep.v
                 THEN Ended(Ret(_json_response(400, [error |-> "Missing server option"])), TRUE)
                 ELSE LET command_name == Get(GetOrEmptyDict(interaction, "data"), "name")
                          interaction_id == Get(interaction, "id")
                          interaction_token == Get(interaction, "token")
                      IN  IF ~(Truthy(command_name) /\ Truthy(interaction_id)
                               /\ Truthy(interaction_token))
                          THEN Ended(Ret(_json_response(400,
                                     [error |-> "Invalid interaction payload"])), TRUE)
                          ELSE IF server_value.t # "str"
                          THEN Ended(Raise("AttributeError"), TRUE)
                          ELSE IF Len(Split1(server_value.s)) # 2
                          THEN Ended(Raise("ValueError"), TRUE)
                          ELSE Publishing(_publish_sns_message(
                                   command_name, interaction_id, interaction_token,
                                   Str(Split1(server_value.s)[1]),
                                   Str(Split1(server_value.s)[2])))

\* a plausible slip: the type is compared as the string the wire shows
IsPing_AsString(interaction_type) == interaction_type = Str(<<"1">>)

\* interaction_type == PING_INTERACTION
IsPing(interaction_type) == interaction_type = Num(PING_INTERACTION)

\* lines 122-136: parse, ping, unsupported type
Parse(body_bytes) ==
    LET loaded == JsonLoads(body_bytes)
    IN  IF loaded.k = "raise"
        THEN IF loaded.exc = "JSONDecodeError"
             THEN Ended(Ret(_json_response(400, [error |-> "Invalid JSON body"])), TRUE)
             ELSE Ended(loaded, TRUE)
        ELSE LET interaction == loaded.v
             IN  IF interaction.t # "obj" THEN Ended(Raise("AttributeError"), TRUE)
                 ELSE LET interaction_type == Get(interaction, "type")
                      IN  IF IsPing(interaction_type)
                          THEN Ended(Ret(_json_response(200, [type |-> PING_INTERACTION])), TRUE)
                          ELSE IF interaction_type # Num(APPLICATION_COMMAND_INTERACTION)
                          THEN Ended(Ret(_json_response(400,
                                     [error |-> "Unsupported interaction type"])), TRUE)
                          ELSE Dispatch(interaction)

\* handler(event, _context) up to its publish call
handle_interaction(event) ==
    LET body_bytes == _get_body_bytes(event)
    IN  IF body_bytes.k = "raise" THEN Ended(body_bytes, FALSE)
        ELSE LET verified == _verify_request(event, body_bytes.v)
             IN  IF verified.k = "raise" THEN Ended(verified, FALSE)
                 ELSE IF ~verified.v
                 THEN Ended(Ret(_json_response(401, [error |-> "Invalid signature"])), FALSE)
                 ELSE Parse(body_bytes.v)

(***************************************************************************)
(* manage-instance/handler.py                                              *)
(***************************************************************************)
\* the command names _send_ec2_command knows, and one it does not
CmdStart == <<"start">>
CmdStop == <<"stop">>
CmdRestart == <<"restart">>
CmdStatus == <<"status">>
CmdIp == <<"ip">>
CmdOther == <<"dance">>

\* The instances EC2 holds: where each is, its ServerId tag and what a
\* describe call reports besides its lifecycle state.
\* "i-3" stands for a record that a describe call returns without an
\* InstanceId.
InstanceIds == {"i-1", "i-2", "i-3"}
Inventory ==
    [i \in InstanceIds |->
        CASE i = "i-1" ->
             [region |-> <<"a">>, serverId |-> <<"a">>,
              PublicIpAddress |-> Str(<<"1.2.3.4">>), PublicDnsName |-> Missing,
              Hostname |-> Str(<<"play.example.com">>), MainPort |-> Str(<<"25565">>)]
          [] i = "i-2" ->
             [region |-> <<"a">>, serverId |-> <<"b">>,
              PublicIpAddress |-> Missing, PublicDnsName |-> Str(<<"ec2.example.com">>),
              Hostname |-> Missing, MainPort |-> Missing]
          [] OTHER ->
             [region |-> <<"b">>, serverId |-> <<"b">>,
              PublicIpAddress |-> Missing, PublicDnsName |-> Missing,
              Hostname |-> Missing, MainPort |-> Missing]]
LifecycleStates == {"stopped", "pending", "running", "stopping"}
\* the lifecycle states at the start
InitialStates == [i \in InstanceIds |-> IF i = "i-1" THEN "stopped" ELSE "running"]

HostnameTag == <<"GameServerEC2Discord:Hostname">>
MainPortTag == <<"GameServerEC2Discord:MainPort">>

\* the instance record a describe call returns for instance i
InstanceRecord(world, i) ==
    Obj([InstanceId |-> IF i = "i-3" THEN Missing ELSE Str(<<i>>),
         State |-> Obj([Name |-> Str(<<world[i]>>)]),
         PublicIpAddress |-> Inventory[i].PublicIpAddress,
         PublicDnsName |-> Inventory[i].PublicDnsName,
         Tags |-> List(<<[Key |-> Str(HostnameTag), Value |-> Inventory[i].Hostname],
                         [Key |-> Str(MainPortTag), Value |-> Inventory[i].MainPort]>>)])

\* describe_instances in `region` filtered on the ServerId tag: the matching
\* instances, one reservation each
Matching(region, server_id) ==
    {i \in InstanceIds : Str(Inventory[i].region) = region
                         /\ Str(Inventory[i].serverId) = server_id}

\* a lookup answered from the states seen at the start
_find_instance_Cached(world, region, server_id) ==
    IF Matching(region, server_id) = {} THEN None
    ELSE InstanceRecord(InitialStates,
             CHOOSE i \in Matching(region, server_id) :
                 \A j \in Matching(region, server_id) : i = "i-1" \/ j # "i-1")


\* _find_instance: the first instance of the first reservation, or None
_find_instance(world, region, server_id) ==
    IF Matching(region, server_id) = {} THEN None
    ELSE InstanceRecord(world,
             CHOOSE i \in Matching(region, server_id) :
                 \A j \in Matching(region, server_id) : i = "i-1" \/ j # "i-1")

\* _get_tag(tags, tag_key): the value of the first tag with that key
RECURSIVE FirstTag(_, _)
FirstTag(tags, tag_key) ==
    IF tags = << >> THEN None
    ELSE IF Head(tags).Key = Str(tag_key)
         THEN (IF Head(tags).Value = Missing THEN None ELSE Head(tags).Value)
         ELSE FirstTag(Tail(tags), tag_key)

_get_tag(tags, tag_key) ==
    IF ~Truthy(tags) THEN None ELSE FirstTag(tags.l, tag_key)

\* str(v) inside an f-string.  In the texts below a backquote of the source
\* is written as an apostrophe.
Format(v) == IF v.t = "str" THEN v.s ELSE <<"None">>

RECURSIVE JoinLines(_)
JoinLines(lines) ==
    IF Len(lines) = 1 THEN lines[1]
    ELSE lines[1] \o <<"\n">> \o JoinLines(Tail(lines))

_format_address_message(instance) ==
    LET public_dns == Get(instance, "PublicDnsName")
        public_ip == Get(instance, "PublicIpAddress")
        tags == Get(instance, "Tags")
        hostname == _get_tag(tags, HostnameTag)
        main_port == _get_tag(tags, MainPortTag)
        ipLine == IF Truthy(public_ip)
                  THEN << <<"- **'">> \o Format(public_ip) \o <<":">>
                             \o Format(main_port) \o <<"'**">> >>
                  ELSE << >>
        dnsLine == IF Truthy(public_dns)
                   THEN << <<"- '">> \o Format(public_dns) \o <<":">>
                              \o Format(main_port) \o <<"'">> >>
                   ELSE << >>
        hostLine == IF Truthy(hostname)
                    THEN << <<"- '">> \o Format(hostname) \o <<":">>
                               \o Format(main_port) \o <<"'">> >>
                    ELSE << >>
    IN  JoinLines(<< <<"Addresses:">> >> \o ipLine \o dnsLine \o hostLine)

\* what a control action does to the lifecycle state of its instance
ControlEffect(action, state) ==
    CASE action = "start" -> IF state = "stopped" THEN "pending" ELSE state
      [] action = "stop" -> IF state \in {"pending", "running"} THEN "stopping" ELSE state
      [] action = "reboot" -> state

\* a table in which restart stops the instance
ControlAction_RestartStops(command) ==
    CASE command = Str(CmdStart) -> "start"
      [] command = Str(CmdStop) -> "stop"
      [] command = Str(CmdRestart) -> "stop"
      [] OTHER -> "none"


\* the control action _send_ec2_command issues for a command, if any
ControlAction(command) ==
    CASE command = Str(CmdStart) -> "start"
      [] command = Str(CmdStop) -> "stop"
      [] command = Str(CmdRestart) -> "reboot"
      [] OTHER -> "none"

InProgress(action) ==
    CASE action = "start" -> <<"Starting...">>
      [] action = "stop" -> <<"Stopping...">>
      [] action = "reboot" -> <<"Rebooting...">>

\* the not-found text with its two names exchanged
NotFound_Exchanged(server_id, region) ==
    <<"Instance with server ID ">> \o Format(region)
        \o <<" not found on region ">> \o Format(server_id)

NotFound(server_id, region) ==
    <<"Instance with server ID ">> \o Format(server_id)
        \o <<" not found on region ">> \o Format(region)

ErrorText(exc) == <<"Error executing command:\n'''\n", exc, "\n'''">>

\* _send_ec2_command for a command that issues no control action
Answer(instance, command) ==
    CASE command = Str(CmdStatus) ->
            <<"State: ">> \o Format(Get(Get(instance, "State"), "Name"))
      [] command = Str(CmdIp) -> _format_address_message(instance)
      [] OTHER -> <<"Unknown command">>

\* a completeness check that leaves the region out
Complete_WithoutRegion(message) ==
    /\ Truthy(message.command)
    /\ Truthy(message.interactionToken)
    /\ Truthy(message.serverId)


\* handler, lines 135-143: the fields of the message and the check that
\* none of them is missing or empty
Complete(message) ==
    /\ Truthy(message.command)
    /\ Truthy(message.interactionToken)
    /\ Truthy(message.serverId)
    /\ Truthy(message.instanceRegion)

NoInstance == [none |-> TRUE]
NoOutcome == << >>

(***************************************************************************)
(* The requests enumerated                                                 *)
(***************************************************************************)
Option(name, value) == Obj([name |-> name, value |-> value])
Data(name, options) == Obj([name |-> name, options |-> options])
Interaction(type, id, token, data) ==
    Obj([type |-> type, id |-> id, token |-> token, data |-> data])

RegionAndServer == Str(<<"a", Sep, "a">>)

OptionValues ==
    {Missing, None, Num(0), Num(5), List(<<Str(<<Sep>>)>>)}
        \cup {Str(s) : s \in Strings}
ServerOptions == {Option(Str(ServerOptionName), v) : v \in OptionValues}
OtherOptions ==
    {None, Option(Missing, RegionAndServer), Option(Str(<<"other">>), RegionAndServer)}
OptionLists ==
    {<< >>} \cup {<<o>> : o \in ServerOptions \cup OtherOptions}
        \cup {<<o, Option(Str(ServerOptionName), RegionAndServer)>> :
                o \in OtherOptions \cup {Option(Str(ServerOptionName), None),
                                         Option(Str(ServerOptionName), Str(<<"a">>))}}
Datas ==
    {Missing, None}
        \cup {Data(n, o) : n \in {Missing, Str(<< >>), Str(CmdStart)},
                           o \in {Missing, None} \cup {List(l) : l \in OptionLists}}
Interactions ==
    {Interaction(type, id, token, data) :
        type \in {Missing, Num(1), Num(2), Num(3)},
        id \in {Missing, Str(<<"id">>)},
        token \in {Missing, Str(<< >>), Str(<<"token">>)},
        data \in Datas}
JsonTexts == {Json(v) : v \in Interactions \cup {None, Num(5), List(<< >>)}}
Bodies ==
    {NoBody, BadB64} \cup {Raw(c) : c \in JsonTexts \cup {Text}}
        \cup {B64(c) : c \in JsonTexts \cup {Text, BadUtf8}}

BytesOf(body) == IF body.w \in {"raw", "b64"} THEN body.c ELSE EmptyBytes

\* the signature headers tried: none, empty, not hex, too short (under a
\* PyNaCl that checks the length and under one that does not), the
\* platform's signature over an earlier timestamp with this body, and the
\* platform's signature over this timestamp and body
SigCases == {"missing", "empty", "nothex", "short", "short-lenient", "stale", "valid"}
SigHeader(case, ts, body) ==
    CASE case = "missing" -> Missing
      [] case = "empty" -> SigEmpty
      [] case = "nothex" -> SigNotHex
      [] case \in {"short", "short-lenient"} -> SigShort
      [] case = "stale" -> Signature(StaleTimestamp, BytesOf(body))
      [] case = "valid" -> Signature(ts, BytesOf(body))
Request(case, ts, body) ==
    Event(SigHeader(case, ts, body), ts, body,
          IF case = "short-lenient" THEN "lenient" ELSE "strict")
Events ==
    {Request(case, ts, body) :
        case \in SigCases, ts \in {Missing, Str(<< >>), Timestamp}, body \in Bodies}

(***************************************************************************)
(* The requests of the whole flow                                          *)
(***************************************************************************)
\* the n-th interaction of a behaviour carries its own id and token
InteractionId(n) == Str(<<"id", n>>)
InteractionToken(n) == Str(<<"token", n>>)

FlowServerValues ==
    {<<"a", Sep, "a">>, <<"a", Sep, "b">>, <<"b", Sep, "a">>, <<Sep, "a">>}
FlowCommands == {CmdStart, CmdStop, CmdRestart, CmdStatus, CmdIp, CmdOther}

Signed(v) == Request("valid", Timestamp, Raw(Json(v)))

FlowEvents(n) ==
    {Signed(Interaction(Num(APPLICATION_COMMAND_INTERACTION),
                        InteractionId(n), InteractionToken(n),
                        Data(Str(c), List(<<Option(Str(ServerOptionName), Str(v))>>)))) :
        c \in FlowCommands, v \in FlowServerValues}
    \cup {Signed(Interaction(Num(PING_INTERACTION), Missing, Missing, Missing)),
          Request("stale", Timestamp, Raw(Text))}

(***************************************************************************)
(* State machine                                                           *)
(***************************************************************************)
Init ==
    /\ requests = << >>
    /\ channel = {}
    /\ acts = << >>
    /\ instances = InitialStates
    /\ patches = << >>

\* the intake handler is invoked with `event` and runs to its response, to
\* an unhandled exception or to its publish call
HandleInteraction(event) ==
    LET run == handle_interaction(event)
    IN  /\ requests' = Append(requests,
               [event |-> event, pc |-> run.pc, result |-> run.result,
                parsed |-> run.parsed, msg |-> run.msg,
                publishCalls |-> 0, publish |-> "none"])
        /\ UNCHANGED <<channel, acts, instances, patches>>

PublishOutcomes == {"ok", "error", "timeout"}

\* a plausible slip: the publish call wrapped in an except clause that
\* logs, so that the acknowledgment is returned whatever the call did
PublishReturns_AckAnyway(i, outcome) ==
    /\ requests[i].pc = "publishing"
    /\ requests' = [requests EXCEPT
           ![i].pc = "done",
           ![i].publishCalls = @ + 1,
           ![i].publish = outcome,
           ![i].result =
               Ret(_json_response(200, [type |-> DEFERRED_CHANNEL_MESSAGE_WITH_SOURCE]))]
    /\ channel' = IF outcome = "error" THEN channel
                  ELSE channel \cup {[req |-> i, msg |-> requests[i].msg]}
    /\ UNCHANGED <<acts, instances, patches>>

\* a plausible slip: a failed publish answered with a client error
PublishReturns_BadRequest(i, outcome) ==
    /\ requests[i].pc = "publishing"
    /\ requests' = [requests EXCEPT
           ![i].pc = "done",
           ![i].publishCalls = @ + 1,
           ![i].publish = outcome,
           ![i].result =
               IF outcome = "ok"
               THEN Ret(_json_response(200, [type |-> DEFERRED_CHANNEL_MESSAGE_WITH_SOURCE]))
               ELSE Ret(_json_response(400, [error |-> "Publish failed"]))]
    /\ channel' = IF outcome = "error" THEN channel
                  ELSE channel \cup {[req |-> i, msg |-> requests[i].msg]}
    /\ UNCHANGED <<acts, instances, patches>>

\* _sns_client.publish returns or raises, and the handler with it: "ok" the
\* topic took the message; "error" it did not (unreachable, refused);
\* "timeout" the topic took it and the reply never arrived
PublishReturns(i, outcome) ==
    /\ requests[i].pc = "publishing"
    /\ requests' = [requests EXCEPT
           ![i].pc = "done",
           ![i].publishCalls = @ + 1,
           ![i].publish = outcome,
           ![i].result =
               IF outcome = "ok"
               THEN Ret(_json_response(200, [type |-> DEFERRED_CHANNEL_MESSAGE_WITH_SOURCE]))
               ELSE Raise("PublishError")]
    /\ channel' = IF outcome = "error" THEN channel
                  ELSE channel \cup {[req |-> i, msg |-> requests[i].msg]}
    /\ UNCHANGED <<acts, instances, patches>>

\* the topic delivers one of its messages (again, for all the executor
\* knows) and the executor's handler starts on it: an incomplete message
\* ends the activation at once
Deliver(entry) ==
    /\ Len(acts) < MaxActivations
    /\ acts' = Append(acts,
           [req |-> entry.req, message |-> entry.msg,
            pc |-> IF Complete(entry.msg) THEN "lookup" ELSE "dropped",
            instance |-> NoInstance, replies |-> << >>, issued |-> << >>,
            outcome |-> NoOutcome])
    /\ UNCHANGED <<requests, channel, instances, patches>>

CallOutcomes == {"ok", "client_error", "connection_error"}

\* _send_ec2_command, lines 75-79 and the branches that call nothing: the
\* describe call returns or raises; raised, it leaves the handler
Lookup(a, outcome) ==
    /\ acts[a].pc = "lookup"
    /\ LET message == acts[a].message
           instance == _find_instance(instances, message.instanceRegion, message.serverId)
           action == ControlAction(message.command)
       IN  acts' = [acts EXCEPT ![a] =
               IF outcome # "ok"
               THEN [@ EXCEPT !.pc = "raised", !.replies = Append(@, outcome)]
               ELSE IF ~Truthy(instance) \/ ~Truthy(Get(instance, "InstanceId"))
               THEN [@ EXCEPT !.pc = "notify", !.replies = Append(@, outcome),
                              !.outcome = NotFound(message.serverId, message.instanceRegion)]
               ELSE IF action # "none"
               THEN [@ EXCEPT !.pc = "control", !.replies = Append(@, outcome),
                              !.instance = instance]
               ELSE [@ EXCEPT !.pc = "notify", !.replies = Append(@, outcome),
                              !.instance = instance,
                              !.outcome = Answer(instance, message.command)]]
    /\ UNCHANGED <<requests, channel, instances, patches>>

\* an executor that looks at the lifecycle state first and reports an error
\* for an action the instance no longer needs
Control_RefusesRepeat(a, outcome) ==
    /\ acts[a].pc = "control"
    /\ LET action == ControlAction(acts[a].message.command)
           id == Get(acts[a].instance, "InstanceId").s[1]
           idle == ControlEffect(action, instances[id]) = instances[id]
       IN  /\ acts' = [acts EXCEPT ![a] =
                  CASE outcome = "ok" /\ idle ->
                          [@ EXCEPT !.pc = "notify", !.replies = Append(@, outcome),
                                    !.outcome = ErrorText("IncorrectInstanceState")]
                    [] outcome = "ok" /\ ~idle ->
                          [@ EXCEPT !.pc = "notify", !.replies = Append(@, outcome),
                                    !.outcome = InProgress(action),
                                    !.issued = Append(@, <<action, id>>)]
                    [] outcome = "client_error" ->
                          [@ EXCEPT !.pc = "notify", !.replies = Append(@, outcome),
                                    !.outcome = ErrorText("ClientError")]
                    [] outcome = "connection_error" ->
                          [@ EXCEPT !.pc = "raised", !.replies = Append(@, outcome)]]
           /\ instances' = IF outcome = "ok"
                           THEN [instances EXCEPT ![id] = ControlEffect(action, @)]
                           ELSE instances
    /\ UNCHANGED <<requests, channel, patches>>


\* a control call that acts on every instance of the region
Control_WholeRegion(a, outcome) ==
    /\ acts[a].pc = "control"
    /\ LET action == ControlAction(acts[a].message.command)
           id == Get(acts[a].instance, "InstanceId").s[1]
       IN  /\ acts' = [acts EXCEPT ![a] =
                  CASE outcome = "ok" ->
                          [@ EXCEPT !.pc = "notify", !.replies = Append(@, outcome),
                                    !.outcome = InProgress(action),
                                    !.issued = Append(@, <<action, id>>)]
                    [] outcome = "client_error" ->
                          [@ EXCEPT !.pc = "notify", !.replies = Append(@, outcome),
                                    !.outcome = ErrorText("ClientError")]
                    [] outcome = "connection_error" ->
                          [@ EXCEPT !.pc = "raised", !.replies = Append(@, outcome)]]
           /\ instances' = IF outcome = "ok"
                           THEN [i \in InstanceIds |->
                                    IF Inventory[i].region = Inventory[id].region
                                    THEN ControlEffect(action, instances[i])
                                    ELSE instances[i]]
                           ELSE instances
    /\ UNCHANGED <<requests, channel, patches>>


\* _send_ec2_command, lines 83-100: the start, stop or reboot call returns,
\* raises ClientError, which is caught, or raises anything else
Control(a, outcome) ==
    /\ acts[a].pc = "control"
    /\ LET action == ControlAction(acts[a].message.command)
           id == Get(acts[a].instance, "InstanceId").s[1]
       IN  /\ acts' = [acts EXCEPT ![a] =
                  CASE outcome = "ok" ->
                          [@ EXCEPT !.pc = "notify", !.replies = Append(@, outcome),
                                    !.outcome = InProgress(action),
                                    !.issued = Append(@, <<action, id>>)]
                    [] outcome = "client_error" ->
                          [@ EXCEPT !.pc = "notify", !.replies = Append(@, outcome),
                                    !.outcome = ErrorText("ClientError")]
                    [] outcome = "connection_error" ->
                          [@ EXCEPT !.pc = "raised", !.replies = Append(@, outcome)]]
           /\ instances' = IF outcome = "ok"
                           THEN [instances EXCEPT ![id] = ControlEffect(action, @)]
                           ELSE instances
    /\ UNCHANGED <<requests, channel, patches>>

\* urlopen returns, raises HTTPError (a status that is no success), raises
\* URLError (the request could not be sent), or the call ends with another
\* exception: what the connection raises while the response is read, such
\* as http.client.RemoteDisconnected, or the UnicodeDecodeError of line 124
\* on a refusal whose body is not UTF-8.
PatchOutcomes == {"ok", "http_error", "url_error", "other_error"}

\* _patch_interaction: the PATCH of the original interaction message is
\* sent; HTTPError and URLError are logged and the handler returns, any
\* other exception leaves the handler
Notify(a, outcome) ==
    /\ acts[a].pc = "notify"
    /\ acts' = [acts EXCEPT ![a].pc =
                   IF outcome = "other_error" THEN "notify_raised" ELSE "done"]
    /\ patches' = Append(patches,
           [act |-> a, interactionToken |-> acts[a].message.interactionToken,
            content |-> acts[a].outcome, result |-> outcome])
    /\ UNCHANGED <<requests, channel, instances>>

Intake ==
    /\ Len(requests) < MaxRequests
    /\ \E event \in FlowEvents(Len(requests) + 1) : HandleInteraction(event)

Next ==
    \/ Intake
    \/ \E i \in DOMAIN requests, outcome \in PublishOutcomes : PublishReturns(i, outcome)
    \/ \E entry \in channel : Deliver(entry)
    \/ \E a \in DOMAIN acts, outcome \in CallOutcomes : Lookup(a, outcome)
    \/ \E a \in DOMAIN acts, outcome \in CallOutcomes : Control(a, outcome)
    \/ \E a \in DOMAIN acts, outcome \in PatchOutcomes : Notify(a, outcome)

Spec == Init /\ [][Next]_vars

\* what the caller of the intake handler sees: the response's status, or a
\* server error when the handler ended with an unhandled exception
HttpStatusClass(result) ==
    IF result.k = "raise" THEN 5 ELSE result.v.statusCode \div 100

\* the intake handler alone, on the requests of the whole flow
NextDispatch ==
    \/ Intake
    \/ \E i \in DOMAIN requests, outcome \in PublishOutcomes : PublishReturns(i, outcome)

SpecDispatch == Init /\ [][NextDispatch]_vars

\* The messages the executor's handler is invoked with: every command on
\* every target, found ("a|a", "a|b"), not found ("b|a") and found without
\* an InstanceId ("b|b"), and messages in which a field is missing or empty.
ExecTargets == {<<"a", "a">>, <<"a", "b">>, <<"b", "a">>, <<"b", "b">>}
ExecTokens == {InteractionToken(1), InteractionToken(2)}
ExecComplete ==
    {_publish_sns_message(Str(c), InteractionId(1), token, Str(<<target[1]>>),
                          Str(<<target[2]>>)) :
        c \in FlowCommands, token \in ExecTokens, target \in ExecTargets}
ExecBase ==
    _publish_sns_message(Str(CmdStart), InteractionId(1), InteractionToken(1),
                         Str(<<"a">>), Str(<<"a">>))
ExecIncomplete ==
    {[ExecBase EXCEPT ![field] = v] :
        field \in {"command", "interactionToken", "serverId", "instanceRegion"},
        v \in {Missing, Str(<< >>)}}
    \cup {[field \in DOMAIN ExecBase |-> Missing]}
ExecMessages == ExecComplete \cup ExecIncomplete

\* handler, lines 134-143: the executor's handler is invoked with a message
\* and ends the activation at once when the message is incomplete
Arrive(message) ==
    /\ Len(acts) < MaxActivations
    /\ acts' = Append(acts,
           [req |-> 0, message |-> message,
            pc |-> IF Complete(message) THEN "lookup" ELSE "dropped",
            instance |-> NoInstance, replies |-> << >>, issued |-> << >>,
            outcome |-> NoOutcome])
    /\ UNCHANGED <<requests, channel, instances, patches>>

\* the executor alone, on any message
NextExecutor ==
    \/ \E message \in ExecMessages : Arrive(message)
    \/ \E a \in DOMAIN acts, outcome \in CallOutcomes : Lookup(a, outcome)
    \/ \E a \in DOMAIN acts, outcome \in CallOutcomes : Control(a, outcome)
    \/ \E a \in DOMAIN acts, outcome \in PatchOutcomes : Notify(a, outcome)

SpecExecutor == Init /\ [][NextExecutor]_vars

\* one invocation of the intake handler on any request
NextIntake ==
    \/ requests = << >> /\ \E event \in Events : HandleInteraction(event)
    \/ \E i \in DOMAIN requests, outcome \in PublishOutcomes : PublishReturns(i, outcome)

SpecIntake == Init /\ [][NextIntake]_vars

(***************************************************************************)
(* Properties                                                              *)
(***************************************************************************)
Done(r) == r.pc = "done"
InvalidSignature401 == Ret([statusCode |-> 401, body |-> [error |-> "Invalid signature"]])
DeferredAck == Ret([statusCode |-> 200, body |-> [type |-> 5]])
PingReply == Ret([statusCode |-> 200, body |-> [type |-> 1]])
Responded(r, code) == Done(r) /\ r.result.k = "ret" /\ r.result.v.statusCode = code
PublishedBy(i) == {entry \in channel : entry.req = i}

\* the transport delivered a body that can be turned into bytes
Decodable(event) == event.body.w # "badb64"

\* both headers are there and not empty, and the signature is the
\* platform's over exactly this timestamp and these body bytes
Authentic(event) ==
    /\ event.headers.sig # Missing
    /\ event.headers.ts # Missing
    /\ event.headers.ts.s # << >>
    /\ event.headers.sig.form = "hex64"
    /\ event.headers.sig.over = <<event.headers.ts, BytesOf(event.body)>>

\* the body is the JSON text of an object
IsObject(event) ==
    /\ event.body.w \in {"raw", "b64"}
    /\ event.body.c.utf8
    /\ event.body.c.json
    /\ event.body.c.v.t = "obj"
Payload(event) == event.body.c.v

\* C1: a request whose signature or timestamp header is missing, or whose
\* signature does not verify over timestamp + body, is answered 401
\* {error: "Invalid signature"}; its body is not parsed and nothing is
\* published.
C1_UnverifiedIs401 ==
    \A i \in DOMAIN requests :
        (Done(requests[i]) /\ Decodable(requests[i].event)
            /\ ~Authentic(requests[i].event))
        => /\ requests[i].result = InvalidSignature401
           /\ ~requests[i].parsed
           /\ requests[i].publishCalls = 0
           /\ PublishedBy(i) = {}

\* C2: the verifier returns false, and never raises, for every request
\* that is not authentic, so that the handler ends with a response.
C2_VerifierTotal ==
    \A i \in DOMAIN requests :
        (Decodable(requests[i].event) /\ ~Authentic(requests[i].event))
        => /\ _verify_request(requests[i].event, BytesOf(requests[i].event.body))
                = Ret(FALSE)
           /\ requests[i].result.k = "ret"

C4_PublishFailureIs5xx ==
    \A i \in DOMAIN requests :
        (Done(requests[i]) /\ requests[i].publish \in {"error", "timeout"})
        => /\ HttpStatusClass(requests[i].result) = 5
           /\ requests[i].result # DeferredAck
           /\ requests[i].publishCalls = 1

C4_Witness ==
    \E i \in DOMAIN requests :
        /\ Done(requests[i]) /\ requests[i].publish = "error"
        /\ requests[i].result.k = "raise"
        /\ PublishedBy(i) = {}

\* the request is authentic and its body is a command invocation
IsCommand(event) ==
    /\ Decodable(event) /\ Authentic(event) /\ IsObject(event)
    /\ Payload(event).f.type = Num(2)

\* the payload's options are a list of objects, one of them named "server";
\* the value of the first such option is a string
ServerIndexes(v) ==
    {k \in 1..Len(v.f.data.f.options.l) :
        v.f.data.f.options.l[k].f.name = Str(<<"server">>)}
HasStringServer(v) ==
    /\ v.f.data.t = "obj"
    /\ v.f.data.f.options.t = "list"
    /\ \A k \in 1..Len(v.f.data.f.options.l) : v.f.data.f.options.l[k].t = "obj"
    /\ ServerIndexes(v) # {}
    /\ \A k \in ServerIndexes(v) :
          (\A j \in ServerIndexes(v) : k <= j) => v.f.data.f.options.l[k].f.value.t = "str"
ServerValue(v) ==
    v.f.data.f.options.l[CHOOSE k \in ServerIndexes(v) :
                             \A j \in ServerIndexes(v) : k <= j].f.value.s

\* the body is malformed in one of the ways the claim lists
Malformed(event) ==
    LET bytes == BytesOf(event.body)
    IN  \/ ~bytes.utf8
        \/ ~bytes.json
        \/ bytes.v.t # "obj"
        \/ bytes.v.f.type \notin {Num(1), Num(2)}
        \/ /\ bytes.v.f.type = Num(2)
           /\ \/ ~HasStringServer(bytes.v)
              \/ ~Truthy(Get(bytes.v.f.data, "name"))
              \/ ~Truthy(Get(bytes.v, "id"))
              \/ ~Truthy(Get(bytes.v, "token"))

\* C5: an authentic request with a malformed body (not JSON, JSON that is
\* no object, an unsupported type, a missing or non-string "server" option,
\* a missing command name, id or token) is answered 400 with a JSON error
\* body and publishes nothing; the handler does not fail on it.
C5_MalformedIs400 ==
    \A i \in DOMAIN requests :
        (Done(requests[i]) /\ Decodable(requests[i].event)
            /\ Authentic(requests[i].event) /\ Malformed(requests[i].event))
        => /\ Responded(requests[i], 400)
           /\ "error" \in DOMAIN requests[i].result.v.body
           /\ requests[i].publishCalls = 0
           /\ PublishedBy(i) = {}

\* C6, as the claim states it: a command invocation whose "server" value
\* holds no separator, or two or more, is answered 400 and publishes
\* nothing.
C6_ExactlyOneSeparator ==
    \A i \in DOMAIN requests :
        (IsCommand(requests[i].event) /\ HasStringServer(Payload(requests[i].event))
            /\ SepCount(ServerValue(Payload(requests[i].event))) # 1)
        => /\ Responded(requests[i], 400)
           /\ requests[i].publishCalls = 0
           /\ PublishedBy(i) = {}

\* C6, amended: a request reaches the publish call only as a command
\* invocation whose "server" value is a string with at least one separator;
\* a value with no separator is answered 400 and publishes nothing.
C6_AtLeastOneSeparator ==
    \A i \in DOMAIN requests :
        /\ (requests[i].pc = "publishing" \/ requests[i].publishCalls > 0
                \/ PublishedBy(i) # {})
            => /\ IsCommand(requests[i].event)
               /\ HasStringServer(Payload(requests[i].event))
               /\ SepCount(ServerValue(Payload(requests[i].event))) >= 1
        /\ (IsCommand(requests[i].event) /\ HasStringServer(Payload(requests[i].event))
                /\ SepCount(ServerValue(Payload(requests[i].event))) = 0)
            => /\ Responded(requests[i], 400)
               /\ requests[i].publishCalls = 0
               /\ PublishedBy(i) = {}

\* a complete command invocation whose "server" value is not empty and
\* holds no separator was answered 400
C6_Witness ==
    \E i \in DOMAIN requests :
        /\ IsCommand(requests[i].event) /\ HasStringServer(Payload(requests[i].event))
        /\ ServerValue(Payload(requests[i].event)) = <<"a", "a">>
        /\ Truthy(Get(Payload(requests[i].event).f.data, "name"))
        /\ Truthy(Get(Payload(requests[i].event), "id"))
        /\ Truthy(Get(Payload(requests[i].event), "token"))
        /\ Responded(requests[i], 400)
        /\ channel = {}

\* C7: every published message has a non-empty command name, interaction
\* id, interaction token, region and server id.
C7_PublishedFieldsNonEmpty ==
    \A entry \in channel :
        /\ Truthy(entry.msg.command)
        /\ Truthy(entry.msg.interactionId)
        /\ Truthy(entry.msg.interactionToken)
        /\ Truthy(entry.msg.region)
        /\ Truthy(entry.msg.serverId)

\* C8: an authentic request whose body is a JSON object of type ping is
\* answered 200 {type: 1} and publishes nothing, whatever else it holds.
C8_PingAlwaysPong ==
    \A i \in DOMAIN requests :
        (Decodable(requests[i].event) /\ Authentic(requests[i].event)
            /\ IsObject(requests[i].event)
            /\ Payload(requests[i].event).f.type = Num(1))
        => /\ Done(requests[i])
           /\ requests[i].result = PingReply
           /\ requests[i].publishCalls = 0
           /\ PublishedBy(i) = {}

\* a ping whose data is null and that carries neither id nor token
C8_Witness ==
    \E i \in DOMAIN requests :
        /\ Authentic(requests[i].event) /\ IsObject(requests[i].event)
        /\ Payload(requests[i].event).f.type = Num(1)
        /\ Payload(requests[i].event).f.data = None
        /\ Payload(requests[i].event).f.token = Missing
        /\ requests[i].result = PingReply

\* C9: no failure of a control-plane call leaves the executor: the
\* activation goes on to an Outcome and to the notifier.
C9_ExecutorNeverRaises ==
    \A a \in DOMAIN acts : acts[a].pc # "raised"

\* C10: an activation on the message of an acknowledged request does not
\* end without an edit-original-message call that carries the request's
\* token and an Outcome text.
C10_AckedCommandIsNotified ==
    \A a \in DOMAIN acts :
        (acts[a].pc \in {"done", "dropped", "raised"}
            /\ requests[acts[a].req].result = DeferredAck)
        => \E k \in DOMAIN patches :
              /\ patches[k].act = a
              /\ patches[k].interactionToken = requests[acts[a].req].msg.interactionToken
              /\ patches[k].content # << >>

\* the lookup of the activation returned
LookedUp(act) == act.replies # << >> /\ act.replies[1] = "ok"

\* the instances the ServerId tag and the region of the message select
Selected(message) ==
    {i \in InstanceIds : /\ Str(Inventory[i].region) = message.instanceRegion
                         /\ Str(Inventory[i].serverId) = message.serverId}

\* the lookup resolves to an instance with an instance id
Found(message) == Selected(message) # {} /\ "i-3" \notin Selected(message)

\* C11: when the lookup returns no instance, or a record without an
\* instance id, the Outcome of every command is the not-found text with the
\* server id and the region, no control call is made or issued, and the
\* command's execution does not raise: the activation goes on to notify.
C11_NotFoundIsOutcome ==
    \A a \in DOMAIN acts :
        (Complete(acts[a].message) /\ LookedUp(acts[a]) /\ ~Found(acts[a].message))
        => /\ acts[a].outcome =
                  <<"Instance with server ID ">> \o acts[a].message.serverId.s
                      \o <<" not found on region ">> \o acts[a].message.instanceRegion.s
           /\ acts[a].replies = <<"ok">>
           /\ acts[a].issued = << >>
           /\ acts[a].pc \in {"notify", "done", "notify_raised"}

\* start for a server id that no instance carries ended with the not-found
\* text, and so did stop for a record without an instance id
C11_Witness ==
    /\ Len(acts) = 2
    /\ acts[1].message.command = Str(CmdStart) /\ Selected(acts[1].message) = {}
    /\ acts[2].message.command = Str(CmdStop) /\ Selected(acts[2].message) = {"i-3"}
    /\ acts[1].pc = "done" /\ acts[2].pc = "done"
    /\ acts[1].outcome = <<"Instance with server ID ", "a", " not found on region ", "b">>
    /\ acts[2].outcome = <<"Instance with server ID ", "b", " not found on region ", "b">>
    /\ instances = InitialStates

\* the control plane answered every call of the activation
AllOk(act) == \A k \in DOMAIN act.replies : act.replies[k] = "ok"

\* _send_ec2_command returned an Outcome; it returned the text of an error
Executed(act) == act.pc \in {"notify", "done", "notify_raised"}
IsErrorText(outcome) == outcome # << >> /\ outcome[1] = "Error executing command:\n'''\n"

Resolved(message) == CHOOSE i \in Selected(message) : TRUE

\* C13: on a found instance start, stop and restart issue one start, stop
\* or reboot action on the resolved instance id and return "Starting...",
\* "Stopping...", "Rebooting..."; status, ip and any other name make no
\* control call, and any other name returns "Unknown command"; no
\* activation makes more than one control call.
C13_DispatchTable ==
    \A a \in DOMAIN acts :
        LET act == acts[a]
            command == act.message.command
        IN  /\ Len(act.issued) <= 1
            /\ Len(act.replies) <= 2
            /\ (Complete(act.message) /\ Found(act.message) /\ Executed(act) /\ AllOk(act))
               => /\ command = Str(<<"start">>)
                     => /\ act.issued = << <<"start", Resolved(act.message)>> >>
                        /\ act.outcome = <<"Starting...">>
                  /\ command = Str(<<"stop">>)
                     => /\ act.issued = << <<"stop", Resolved(act.message)>> >>
                        /\ act.outcome = <<"Stopping...">>
                  /\ command = Str(<<"restart">>)
                     => /\ act.issued = << <<"reboot", Resolved(act.message)>> >>
                        /\ act.outcome = <<"Rebooting...">>
                  /\ command \notin {Str(<<"start">>), Str(<<"stop">>), Str(<<"restart">>),
                                     Str(<<"status">>), Str(<<"ip">>)}
                     => act.outcome = <<"Unknown command">>
            /\ command \notin {Str(<<"start">>), Str(<<"stop">>), Str(<<"restart">>)}
               => act.issued = << >> /\ Len(act.replies) <= 1

\* restart on a running instance issued one reboot and an unrecognised
\* command on the same instance was answered "Unknown command"
C13_Witness ==
    /\ Len(acts) = 2
    /\ acts[1].message.command = Str(CmdRestart)
    /\ acts[1].issued = << <<"reboot", "i-2">> >>
    /\ acts[1].outcome = <<"Rebooting...">> /\ acts[1].pc = "done"
    /\ acts[2].message.command = Str(CmdOther)
    /\ Selected(acts[2].message) = {"i-2"}
    /\ acts[2].outcome = <<"Unknown command">> /\ acts[2].pc = "done"
    /\ acts[2].issued = << >>


\* the text the claim describes for instance i: the header, then a line for
\* each address that is present, public IP, public DNS, tag hostname, with
\* ":" and the port appended only when the port tag is present
PortText(i) ==
    IF Truthy(Inventory[i].MainPort) THEN <<":">> \o Inventory[i].MainPort.s ELSE << >>
AddressLine(open, address, i, close) ==
    IF Truthy(address) THEN << <<open>> \o address.s \o PortText(i) \o <<close>> >> ELSE << >>
AddressText(i) ==
    JoinLines(<< <<"Addresses:">> >>
              \o AddressLine("- **'", Inventory[i].PublicIpAddress, i, "'**")
              \o AddressLine("- '", Inventory[i].PublicDnsName, i, "'")
              \o AddressLine("- '", Inventory[i].Hostname, i, "'"))

\* C14: the Outcome of ip on a found instance is the header and one line for
\* each address that is present, each with the port only if the port tag is
\* present: without the port tag no port text follows any address.
C14_AddressesWithPortIfPresent ==
    \A a \in DOMAIN acts :
        (/\ Complete(acts[a].message) /\ acts[a].message.command = Str(<<"ip">>)
         /\ Found(acts[a].message) /\ Executed(acts[a]))
        => acts[a].outcome = AddressText(Resolved(acts[a].message))


\* the edit-original-message calls of activation a
PatchesOf(a) == {k \in DOMAIN patches : patches[k].act = a}

\* C15: when the edit-original-message call is refused or fails at the
\* network level, the activation still completes normally: no exception
\* leaves the handler, the call is made once and no action is issued again.
C15_NotifyFailureSwallowed ==
    \A k \in DOMAIN patches :
        patches[k].result # "ok"
        => /\ acts[patches[k].act].pc = "done"
           /\ PatchesOf(patches[k].act) = {k}
           /\ Len(acts[patches[k].act].issued) <= 1

\* C16: the Outcome of status on a found instance is "State: " and the
\* lifecycle state the instance has when the activation's own lookup
\* returns; a state seen earlier is never reported in its place.
C16_StatusIsFresh ==
    [][\A a \in DOMAIN acts :
          (/\ acts[a].pc = "lookup" /\ acts'[a].pc = "notify"
           /\ acts[a].message.command = Str(<<"status">>)
           /\ Found(acts[a].message))
          => acts'[a].outcome = <<"State: ", instances[Resolved(acts[a].message)]>>]_vars

\* status after a start of the stopped instance reported "State: pending"
C16_Witness ==
    /\ Len(acts) = 2
    /\ acts[1].message.command = Str(CmdStart) /\ acts[1].issued = << <<"start", "i-1">> >>
    /\ acts[2].message.command = Str(CmdStatus) /\ Selected(acts[2].message) = {"i-1"}
    /\ acts[2].pc = "done" /\ acts[2].outcome = <<"State: ", "pending">>
    /\ \E k \in DOMAIN patches : patches[k].act = 2 /\ patches[k].content = <<"State: ", "pending">>


\* C17: a published message holds interactionId, interactionToken, command,
\* serverId, region and instanceRegion, taken from the request, with region
\* equal to instanceRegion; an activation works on the message as published,
\* looks up and acts on that (instanceRegion, serverId), runs that command,
\* and its edit-original-message call carries that message's token and the
\* activation's Outcome, never the token of another command.
C17_MessageCarriedUnchanged ==
    /\ \A entry \in channel :
          LET payload == Payload(requests[entry.req].event)
          IN  /\ DOMAIN entry.msg = {"interactionId", "interactionToken", "command",
                                     "serverId", "region", "instanceRegion"}
              /\ entry.msg.region = entry.msg.instanceRegion
              /\ entry.msg.command = payload.f.data.f.name
              /\ entry.msg.interactionId = payload.f.id
              /\ entry.msg.interactionToken = payload.f.token
              /\ entry.msg.instanceRegion.s \o <<"|">> \o entry.msg.serverId.s
                     = ServerValue(payload)
    /\ \A a \in DOMAIN acts :
          /\ [req |-> acts[a].req, msg |-> acts[a].message] \in channel
          /\ acts[a].instance # NoInstance
             => /\ Selected(acts[a].message) # {}
                /\ Get(acts[a].instance, "InstanceId") \in
                       {Missing, Str(<<Resolved(acts[a].message)>>)}
          /\ \A k \in DOMAIN acts[a].issued :
                /\ acts[a].issued[k][2] = Resolved(acts[a].message)
                /\ acts[a].message.command =
                       Str(<< CASE acts[a].issued[k][1] = "start" -> "start"
                                [] acts[a].issued[k][1] = "stop" -> "stop"
                                [] acts[a].issued[k][1] = "reboot" -> "restart" >>)
    /\ \A k \in DOMAIN patches :
          /\ patches[k].interactionToken = acts[patches[k].act].message.interactionToken
          /\ patches[k].interactionToken =
                 Payload(requests[acts[patches[k].act].req].event).f.token
          /\ patches[k].content = acts[patches[k].act].outcome

\* two commands of two requests were in flight together and each Outcome
\* was sent with the token of its own request
C17_Witness ==
    /\ Len(acts) = 2 /\ Len(patches) = 2
    /\ acts[1].req # acts[2].req
    /\ acts[1].message.command = Str(CmdStatus)
    /\ acts[2].message.command = Str(CmdStop)
    /\ patches[1].act = 2 /\ patches[2].act = 1
    /\ patches[1].interactionToken = InteractionToken(acts[2].req)
    /\ patches[1].content = <<"Stopping...">>
    /\ patches[2].interactionToken = InteractionToken(acts[1].req)
    /\ patches[2].content = <<"State: ", "running">>


\* C18: the lifecycle state of an instance changes only in the step in
\* which an activation issues its control action on that instance, the one
\* its own region and server id resolve to; and an activation that has come
\* to its control call is never kept from it by another activation.
C18_IsolatedPerTarget ==
    /\ [][\A i \in InstanceIds :
             instances'[i] # instances[i]
             => \E a \in DOMAIN acts :
                   /\ acts[a].pc = "control" /\ acts'[a].pc = "notify"
                   /\ Len(acts'[a].issued) = Len(acts[a].issued) + 1
                   /\ Selected(acts[a].message) = {i}]_vars
    /\ [](\A a \in DOMAIN acts :
             acts[a].pc = "control" => ENABLED Control(a, "ok"))

\* start and stop for the same stopped instance were both issued, the stop
\* of the later activation first: the instance is pending, not stopping
C18_Witness ==
    /\ Len(acts) = 2
    /\ acts[1].message.command = Str(CmdStart) /\ acts[1].issued = << <<"start", "i-1">> >>
    /\ acts[2].message.command = Str(CmdStop) /\ acts[2].issued = << <<"stop", "i-1">> >>
    /\ instances["i-1"] = "pending"
    /\ instances["i-2"] = "running"


\* C19: an activation on a message in which command, interactionToken,
\* serverId or instanceRegion is missing or empty ends at once: it makes no
\* lookup, issues no control action and makes no notify call, and its
\* arrival leaves the lifecycle states as they are.
C19_IncompleteIsDropped ==
    /\ [](\A a \in DOMAIN acts :
             (\E field \in {"command", "interactionToken", "serverId", "instanceRegion"} :
                 acts[a].message[field] \in {Missing, None, Str(<< >>)})
             => /\ acts[a].pc = "dropped"
                /\ acts[a].replies = << >>
                /\ acts[a].instance = NoInstance
                /\ acts[a].issued = << >>
                /\ acts[a].outcome = << >>
                /\ PatchesOf(a) = {})
    /\ [][Len(acts') > Len(acts) => instances' = instances]_vars

\* a message without instanceRegion and one with an empty serverId were
\* both dropped, with nothing looked up, issued or sent
C19_Witness ==
    /\ Len(acts) = 2
    /\ acts[1].message.instanceRegion = Missing /\ acts[1].pc = "dropped"
    /\ acts[2].message.serverId = Str(<< >>) /\ acts[2].pc = "dropped"
    /\ patches = << >>
    /\ instances = InitialStates

====
